---- MODULE Spec2Model ----
(***************************************************************************)
(* The fetch bridge of odds-tracker-desktop: the Tauri command             *)
(* fetch_odds(url) of src-tauri/src/main.rs.  Each invocation is an async  *)
(* task with two suspension points, `.send().await` and `.text().await`.   *)
(* The HTTP client (reqwest, default configuration) and the remote server  *)
(* are the environment: the server is a small route table, the transport   *)
(* may fail at either suspension point.                                    *)
(*                                                                         *)
(* Strings are sequences of fragments, bodies are sequences of bytes, an   *)
(* Option is a sequence of length 0 (None) or 1 (Some).                    *)
(***************************************************************************)
EXTENDS Integers, Sequences, FiniteSets, TLC

\* Number of invocations the host shell makes (they may overlap).
MaxCalls == 2

\* Redirect limit of the default client built by reqwest::Client::new()
\* (10 hops in reqwest), scaled down.
MaxRedirects == 2

Calls == 1..MaxCalls

----------------------------------------------------------------------------
\* Values

None == <<>>

Some(x) == <<x>>

Last(s) == s[Len(s)]

\* main.rs:16, the literal handed to HeaderValue::from_static
UserAgent ==
  "Mozilla/5.0 (Windows NT 10.0; Win64; x64) AppleWebKit/537.36 (KHTML, like Gecko) Chrome/91.0.4472.124 Safari/537.36"

\* Header names are case-insensitive; reqwest keeps them lower-case.
USER_AGENT == "user-agent"

\* HeaderMap::new()
EmptyHeaders == [n \in {} |-> ""]

\* HeaderMap::insert: the new value replaces an older one of that name.
Insert(h, name, value) == (name :> value) @@ h

\* What the default client adds to a request that does not carry it.
ClientDefaultHeaders == ("accept" :> "*/*")

----------------------------------------------------------------------------
\* The urls the host shell passes.  A url is <<scheme, host, path>>; a
\* string that does not parse as an absolute url is a single fragment.

U_ok      == <<"https", "example.test", "/ok">>
U_empty   == <<"https", "example.test", "/empty">>
U_missing == <<"https", "example.test", "/missing">>
U_error   == <<"https", "example.test", "/error">>
U_raw     == <<"https", "example.test", "/raw">>
U_multi   == <<"https", "example.test", "/multi">>
U_moved   == <<"https", "example.test", "/moved">>
U_loop    == <<"https", "example.test", "/loop">>
U_down    == <<"https", "example.test", "/down">>
U_ftp     == <<"ftp", "example.test", "/ok">>
U_bad     == <<"not a url">>

Urls ==
  {U_ok, U_empty, U_missing, U_error, U_raw, U_multi, U_moved, U_loop,
   U_down, U_ftp, U_bad}

\* Url::parse as used by IntoUrl: an absolute url has a scheme and a host.
WellFormed(u) == Len(u) = 3

\* The schemes the client sends; any other is refused when send() is called.
SchemeAllowed(u) == u[1] \in {"http", "https"}

\* The url is refused before anything is put on the wire.
Rejected(u) == ~WellFormed(u) \/ ~SchemeAllowed(u)

----------------------------------------------------------------------------
\* The remote side: what the server at each url answers.  `up` is FALSE for
\* a host that cannot be reached; `location` is the Location header.

InvalidByte == "0xFF"

Hello == <<"h", "e", "l", "l", "o", "\n">>

Reply(status, body, location) ==
  [up |-> TRUE, status |-> status, body |-> body, location |-> location]

Unreachable == [up |-> FALSE, status |-> 0, body |-> <<>>, location |-> None]

Route(u) ==
  CASE u = U_ok      -> Reply(200, Hello, None)
    [] u = U_empty   -> Reply(200, <<>>, None)
    [] u = U_missing -> Reply(404, <<"g", "o", "n", "e">>, None)
    [] u = U_error   -> Reply(500, Hello, None)
    [] u = U_raw     -> Reply(200, <<"h", InvalidByte, "i">>, None)
    [] u = U_multi   -> Reply(300, <<"p", "i", "c", "k">>, None)
    [] u = U_moved   -> Reply(302, <<"m", "o", "v", "e", "d">>, Some(U_ok))
    [] u = U_loop    -> Reply(302, <<"l", "o", "o", "p">>, Some(U_loop))
    [] OTHER         -> Unreachable

Is2xx(status) == status \in 200..299

IsRedirect(status) == status \in {301, 302, 303, 307, 308}

\* The client follows a redirect status that comes with a Location.
Followable(r) == IsRedirect(r.status) /\ r.location # None

\* Every byte is valid in the body's encoding.
Readable(body) == \A k \in 1..Len(body) : body[k] # InvalidByte

\* Response::text(): lossy decoding, an invalid byte becomes U+FFFD.
Decode(body) ==
  [k \in 1..Len(body) |-> IF body[k] = InvalidByte THEN "\\uFFFD" ELSE body[k]]

----------------------------------------------------------------------------
\* reqwest::Error and its Display

BuilderError(u) ==
  [kind |-> "builder", url |-> IF WellFormed(u) THEN Some(u) ELSE None]

RequestError(u) == [kind |-> "request", url |-> Some(u)]

RedirectError(u) == [kind |-> "redirect", url |-> Some(u)]

DecodeError(u) == [kind |-> "decode", url |-> Some(u)]

KindText(kind) ==
  CASE kind = "builder"  -> "builder error"
    [] kind = "request"  -> "error sending request"
    [] kind = "redirect" -> "error following redirect"
    [] kind = "decode"   -> "error decoding response body"

\* e.to_string(): the kind, then the url the error is about when it has one.
to_string(e) ==
  <<KindText(e.kind)>> \o
  (IF e.url = None THEN <<>> ELSE <<" for url (">> \o e.url[1] \o <<")">>)

\* Ok(text.trim_end().to_string()) in place of Ok(text)
OkTrimmed(text) ==
  [variant |-> "Ok",
   value |-> IF text # <<>> /\ Last(text) = "\n"
               THEN SubSeq(text, 1, Len(text) - 1)
               ELSE text]

\* Result<String, String>
Ok(text) == [variant |-> "Ok", value |-> text]

Err(message) == [variant |-> "Err", value |-> message]

\* What an awaited client future yields: Ok(value) or Err(reqwest::Error).
Yields(value) == [ok |-> TRUE, value |-> Some(value), err |-> None]

Fails(e) == [ok |-> FALSE, value |-> None, err |-> Some(e)]

----------------------------------------------------------------------------
VARIABLES
  pc,        \* per call: "idle", "send", "text", "resolved", "failed"
  url,       \* per call: Option of the argument
  headers,   \* per call: the HeaderMap the call builds
  sent,      \* per call: the requests put on the wire on its behalf
  received,  \* per call: the server replies that reached the client
  response,  \* per call: Option of the Response that send() yielded
  error,     \* per call: Option of the reqwest::Error that occurred
  result,    \* per call: Option of the value returned to the host shell
  trace      \* per call: the awaited steps that completed, in order

vars ==
  <<pc, url, headers, sent, received, response, error, result, trace>>

Pending == {"send", "text"}

Terminal == {"resolved", "failed"}

Init ==
  /\ pc = [i \in Calls |-> "idle"]
  /\ url = [i \in Calls |-> None]
  /\ headers = [i \in Calls |-> EmptyHeaders]
  /\ sent = [i \in Calls |-> <<>>]
  /\ received = [i \in Calls |-> <<>>]
  /\ response = [i \in Calls |-> None]
  /\ error = [i \in Calls |-> None]
  /\ result = [i \in Calls |-> None]
  /\ trace = [i \in Calls |-> <<>>]

----------------------------------------------------------------------------
\* fetch_odds, lines 11-23: the part that runs before the first await

\* main.rs:14-17
BuildHeaders == Insert(EmptyHeaders, USER_AGENT, UserAgent)

\* client.get(url) without `.headers(headers)`
BuildRequestNoHeaders(i, u, h) ==
  IF WellFormed(u)
    THEN <<[call |-> i, method |-> "GET", url |-> u, headers |-> EmptyHeaders]>>
    ELSE <<>>

\* main.rs:20-22: client.get(url).headers(headers); the builder holds no
\* request when the url did not parse.
BuildRequest(i, u, h) ==
  IF WellFormed(u)
    THEN Some([call |-> i, method |-> "GET", url |-> u, headers |-> h])
    ELSE None

\* the request is sent a second time
IssueTwice(builder) ==
  IF builder = <<>> \/ ~SchemeAllowed(builder[1].url)
    THEN <<>>
    ELSE <<builder[1], builder[1]>>

\* send(): the client refuses a scheme it does not speak, adds its default
\* headers and puts the request on the wire.
Issue(builder) ==
  IF builder = None \/ ~SchemeAllowed(builder[1].url)
    THEN <<>>
    ELSE <<[builder[1] EXCEPT !.headers = @ @@ ClientDefaultHeaders]>>

\* The host shell invokes the command; calls are numbered in the order they
\* are issued.
Invoke(i, u) ==
  /\ pc[i] = "idle"
  /\ IF i = 1 THEN TRUE ELSE pc[i - 1] # "idle"
  /\ LET h == BuildHeaders IN
       /\ headers' = [headers EXCEPT ![i] = h]
       /\ sent' = [sent EXCEPT ![i] = Issue(BuildRequest(i, u, h))]
  /\ url' = [url EXCEPT ![i] = Some(u)]
  /\ pc' = [pc EXCEPT ![i] = "send"]
  /\ UNCHANGED <<received, response, error, result, trace>>

----------------------------------------------------------------------------
\* `.send().await?.error_for_status()`: a non-2xx status becomes an error
SendStepErrorForStatus(i, outcome) ==
  /\ trace' = [trace EXCEPT ![i] = Append(@, [step |-> "send", ok |-> outcome.ok])]
  /\ IF outcome.ok /\ Is2xx(outcome.value[1].status)
       THEN /\ response' = [response EXCEPT ![i] = outcome.value]
            /\ pc' = [pc EXCEPT ![i] = "text"]
            /\ UNCHANGED <<error, result>>
       ELSE /\ error' = [error EXCEPT ![i] =
                          IF outcome.ok
                            THEN <<[kind |-> "status", url |-> <<outcome.value[1].url>>]>>
                            ELSE outcome.err]
            /\ result' = [result EXCEPT ![i] =
                            IF outcome.ok
                              THEN <<[variant |-> "Err", value |-> <<"HTTP status error">>]>>
                              ELSE <<[variant |-> "Err", value |-> to_string(outcome.err[1])]>>]
            /\ pc' = [pc EXCEPT ![i] = "failed"]
            /\ UNCHANGED response

\* `.send().await.unwrap()`: a send error panics the task
SendStepUnwrap(i, outcome) ==
  /\ trace' = [trace EXCEPT ![i] = Append(@, [step |-> "send", ok |-> outcome.ok])]
  /\ IF outcome.ok
       THEN /\ response' = [response EXCEPT ![i] = outcome.value]
            /\ pc' = [pc EXCEPT ![i] = "text"]
            /\ UNCHANGED <<error, result>>
       ELSE /\ error' = [error EXCEPT ![i] = outcome.err]
            /\ pc' = [pc EXCEPT ![i] = "panicked"]
            /\ UNCHANGED <<response, result>>

\* a send error is awaited again for ever instead of being returned
SendStepHang(i, outcome) ==
  IF outcome.ok
    THEN /\ trace' = [trace EXCEPT ![i] = Append(@, [step |-> "send", ok |-> TRUE])]
         /\ response' = [response EXCEPT ![i] = outcome.value]
         /\ pc' = [pc EXCEPT ![i] = "text"]
         /\ UNCHANGED <<error, result>>
    ELSE UNCHANGED <<trace, response, pc, error, result>>

\* lines 20-25: `.send().await.map_err(|e| e.to_string())?`
SendStep(i, outcome) ==
  /\ trace' = [trace EXCEPT ![i] = Append(@, [step |-> "send", ok |-> outcome.ok])]
  /\ IF outcome.ok
       THEN /\ response' = [response EXCEPT ![i] = outcome.value]
            /\ pc' = [pc EXCEPT ![i] = "text"]
            /\ UNCHANGED <<error, result>>
       ELSE /\ error' = [error EXCEPT ![i] = outcome.err]
            /\ result' = [result EXCEPT ![i] = Some(Err(to_string(outcome.err[1])))]
            /\ pc' = [pc EXCEPT ![i] = "failed"]
            /\ UNCHANGED response

\* `.text().await.unwrap_or_default()`: a body error becomes an empty success
TextStepSwallow(i, outcome) ==
  /\ trace' = [trace EXCEPT ![i] = Append(@, [step |-> "text", ok |-> outcome.ok])]
  /\ error' = [error EXCEPT ![i] = outcome.err]
  /\ result' = [result EXCEPT ![i] =
                  <<[variant |-> "Ok",
                     value |-> IF outcome.ok THEN outcome.value[1] ELSE <<>>]>>]
  /\ pc' = [pc EXCEPT ![i] = "resolved"]

\* a body error sends the task back to the send step
TextStepRetry(i, outcome) ==
  /\ trace' = [trace EXCEPT ![i] = Append(@, [step |-> "text", ok |-> outcome.ok])]
  /\ IF outcome.ok
       THEN /\ result' = [result EXCEPT ![i] =
                            <<[variant |-> "Ok", value |-> outcome.value[1]]>>]
            /\ pc' = [pc EXCEPT ![i] = "resolved"]
            /\ UNCHANGED error
       ELSE /\ pc' = [pc EXCEPT ![i] = "send"]
            /\ UNCHANGED <<error, result>>

\* lines 28-33: `.text().await.map_err(|e| e.to_string())?; Ok(text)`
TextStep(i, outcome) ==
  /\ trace' = [trace EXCEPT ![i] = Append(@, [step |-> "text", ok |-> outcome.ok])]
  /\ IF outcome.ok
       THEN /\ result' = [result EXCEPT ![i] = Some(Ok(outcome.value[1]))]
            /\ pc' = [pc EXCEPT ![i] = "resolved"]
            /\ UNCHANGED error
       ELSE /\ error' = [error EXCEPT ![i] = outcome.err]
            /\ result' = [result EXCEPT ![i] = Some(Err(to_string(outcome.err[1])))]
            /\ pc' = [pc EXCEPT ![i] = "failed"]

\* one process-wide "current request" slot, overwritten by the latest call
CurrentUrlShared(i) ==
  LET latest == CHOOSE j \in Calls :
                  /\ sent[j] # <<>>
                  /\ \A k \in Calls : sent[k] # <<>> => k <= j
  IN sent[latest][Len(sent[latest])].url

\* The url the call's client is currently talking to.
CurrentUrl(i) == Last(sent[i]).url

\* one process-wide client whose redirect count is never reset
HopsShared(i) ==
  Cardinality({jk \in Calls \X (1..(MaxRedirects + 2)) :
                 jk[2] >= 2 /\ jk[2] <= Len(sent[jk[1]])})

\* Redirects the client has followed for the call.
Hops(i) == Len(sent[i]) - 1

\* The send future of a refused url resolves to a builder error.
SendBuilderError(i) ==
  /\ pc[i] = "send"
  /\ sent[i] = <<>>
  /\ SendStep(i, Fails(BuilderError(url[i][1])))
  /\ UNCHANGED <<url, headers, sent, received>>

\* The host is unreachable, or the transport fails on the way.
SendConnectError(i) ==
  /\ pc[i] = "send"
  /\ sent[i] # <<>>
  /\ SendStep(i, Fails(RequestError(CurrentUrl(i))))
  /\ UNCHANGED <<url, headers, sent, received>>

\* The server answers with a redirect and the client follows it: the same
\* request, headers included, goes to the Location.
SendRedirect(i) ==
  /\ pc[i] = "send"
  /\ sent[i] # <<>>
  /\ LET r == Route(CurrentUrl(i)) IN
       /\ r.up
       /\ Followable(r)
       /\ Hops(i) < MaxRedirects
       /\ received' = [received EXCEPT ![i] = Append(@, r)]
       /\ sent' = [sent EXCEPT ![i] =
                     Append(@, [Last(@) EXCEPT !.url = r.location[1]])]
  /\ UNCHANGED <<pc, url, headers, response, error, result, trace>>

\* The server answers with a redirect beyond the client's limit.
SendTooManyRedirects(i) ==
  /\ pc[i] = "send"
  /\ sent[i] # <<>>
  /\ LET r == Route(CurrentUrl(i)) IN
       /\ r.up
       /\ Followable(r)
       /\ Hops(i) >= MaxRedirects
       /\ received' = [received EXCEPT ![i] = Append(@, r)]
  /\ SendStep(i, Fails(RedirectError(CurrentUrl(i))))
  /\ UNCHANGED <<url, headers, sent>>

\* The server answers with anything else: send() yields the Response.
SendOk(i) ==
  /\ pc[i] = "send"
  /\ sent[i] # <<>>
  /\ LET r == Route(CurrentUrl(i)) IN
       /\ r.up
       /\ ~Followable(r)
       /\ received' = [received EXCEPT ![i] = Append(@, r)]
       /\ SendStep(i, Yields([status |-> r.status, body |-> r.body,
                              url |-> CurrentUrl(i)]))
  /\ UNCHANGED <<url, headers, sent>>

\* The whole body arrives and is decoded.
TextOk(i) ==
  /\ pc[i] = "text"
  /\ TextStep(i, Yields(Decode(response[i][1].body)))
  /\ UNCHANGED <<url, headers, sent, received, response>>

\* The transport fails while the body is read.
TextError(i) ==
  /\ pc[i] = "text"
  /\ TextStep(i, Fails(DecodeError(response[i][1].url)))
  /\ UNCHANGED <<url, headers, sent, received, response>>

\* A pending call completes one awaited step.
Complete(i) ==
  \/ SendBuilderError(i)
  \/ SendConnectError(i)
  \/ SendRedirect(i)
  \/ SendTooManyRedirects(i)
  \/ SendOk(i)
  \/ TextOk(i)
  \/ TextError(i)

Next ==
  \/ \E i \in Calls, u \in Urls : Invoke(i, u)
  \/ \E i \in Calls : SendBuilderError(i)
  \/ \E i \in Calls : SendConnectError(i)
  \/ \E i \in Calls : SendRedirect(i)
  \/ \E i \in Calls : SendTooManyRedirects(i)
  \/ \E i \in Calls : SendOk(i)
  \/ \E i \in Calls : TextOk(i)
  \/ \E i \in Calls : TextError(i)

Spec == Init /\ [][Next]_vars

\* The transport does not stall for ever: while some call is pending, a
\* response or a failure is eventually delivered to one of the pending calls.
\* Nothing obliges the host shell to invoke the command.
FairSpec == Spec /\ WF_vars(\E i \in Calls : Complete(i))

----------------------------------------------------------------------------
\* Properties

NonEmpty(message) == Len(message) > 0 /\ message[1] # ""

Invoked(i) == pc[i] # "idle"

\* Calls are numbered in the order they are issued: the earlier call i is
\* still in flight although the later call j has been invoked.
Overlap(i, j) ==
  /\ i < j
  /\ pc[i] \in Pending
  /\ Invoked(j)

\* The failure came from the transport, not from what the server answered.
TransportFailed(i) ==
  error[i] # None /\ error[i][1].kind \in {"request", "decode"}

\* The reply the client handed back to fetch_odds, if any: the last reply
\* received, unless it is a redirect the client acts on itself.
FinalReply(i) ==
  IF received[i] # <<>> /\ ~Followable(Last(received[i]))
    THEN Some(Last(received[i]))
    ELSE None

\* C1: a call whose send yields status 200 with a body B readable as text,
\* and whose body read succeeds, returns Ok carrying exactly B (nothing
\* trimmed, appended or replaced), the empty body included.
C1_BodyRelayedExactly ==
  \A i \in Calls :
    (/\ pc[i] \in Terminal
     /\ FinalReply(i) # None
     /\ FinalReply(i)[1].status = 200
     /\ Readable(FinalReply(i)[1].body)
     /\ ~TransportFailed(i))
    => result[i] = Some([variant |-> "Ok", value |-> FinalReply(i)[1].body])

C1_Witness ==
  \E i, j \in Calls :
    /\ pc[i] = "resolved" /\ url[i] = Some(U_ok)
    /\ result[i] = Some([variant |-> "Ok", value |-> Hello])
    /\ pc[j] = "resolved" /\ url[j] = Some(U_empty)
    /\ result[j] = Some([variant |-> "Ok", value |-> <<>>])

\* C2 as stated: every reply with a non-2xx status and a readable body B
\* makes the call return Ok carrying B, and no status leads to failure.
C2_AnyNon2xxReplyIsReturned ==
  \A i \in Calls :
    \A k \in 1..Len(received[i]) :
      (/\ pc[i] \in Terminal
       /\ ~Is2xx(received[i][k].status)
       /\ Readable(received[i][k].body)
       /\ ~TransportFailed(i))
      => result[i] = Some([variant |-> "Ok", value |-> received[i][k].body])

\* C2 (amended): fetch_odds never looks at the status of the reply the
\* client hands back: whatever that status (2xx, 4xx, 5xx, a 3xx the client
\* does not follow), absent a transport failure the call returns Ok with
\* the decoded body, the same value as any other call whose reply has the
\* same body.
C2_StatusNotInspected ==
  /\ \A i \in Calls :
       (pc[i] \in Terminal /\ FinalReply(i) # None /\ ~TransportFailed(i))
       => /\ pc[i] = "resolved"
          /\ result[i] =
               Some([variant |-> "Ok", value |-> Decode(FinalReply(i)[1].body)])
  /\ \A i, j \in Calls :
       (/\ pc[i] = "resolved" /\ pc[j] = "resolved"
        /\ FinalReply(i) # None /\ FinalReply(j) # None
        /\ FinalReply(i)[1].body = FinalReply(j)[1].body)
       => result[i] = result[j]

C2_Witness ==
  \E i, j \in Calls :
    /\ pc[i] = "resolved" /\ FinalReply(i)[1].status = 500
    /\ pc[j] = "resolved" /\ FinalReply(j)[1].status = 200
    /\ FinalReply(i)[1].body = FinalReply(j)[1].body
    /\ result[i] = result[j]

\* C3: a call with a malformed url ends in Err with a non-empty message; it
\* never panics and never returns Ok.
C3_MalformedUrlFails ==
  \A i \in Calls :
    (url[i] # None /\ ~WellFormed(url[i][1]))
    => /\ pc[i] \in {"send", "failed"}
       /\ pc[i] = "send" => result[i] = None
       /\ pc[i] = "failed" =>
            /\ result[i] # None
            /\ result[i][1].variant = "Err"
            /\ NonEmpty(result[i][1].value)

C3_Witness ==
  \E i \in Calls :
    /\ url[i] = Some(U_bad)
    /\ pc[i] = "failed"
    /\ result[i][1].variant = "Err"

StepFailed(i) == \E k \in 1..Len(trace[i]) : ~trace[i][k].ok

BothStepsOk(i) ==
  trace[i] = <<[step |-> "send", ok |-> TRUE], [step |-> "text", ok |-> TRUE]>>

\* C4: a failure of the send step or of the body read ends the call in Err
\* carrying the text of the underlying error; nothing is returned before the
\* call ends, and the call returns Ok exactly when both steps succeeded.
C4_FailuresBecomeErrStrings ==
  \A i \in Calls :
    /\ pc[i] \notin Terminal => result[i] = None /\ ~StepFailed(i)
    /\ pc[i] \in Terminal =>
         /\ result[i] # None
         /\ result[i][1].variant \in {"Ok", "Err"}
         /\ result[i][1].variant = "Ok" <=> BothStepsOk(i)
         /\ result[i][1].variant = "Err" <=> StepFailed(i)
         /\ StepFailed(i) =>
              /\ error[i] # None
              /\ NonEmpty(result[i][1].value)
              /\ result[i][1].value[1] = KindText(error[i][1].kind)
              /\ error[i][1].kind = "decode" <=> Len(trace[i]) = 2

C4_Witness ==
  \E i, j \in Calls :
    /\ pc[i] = "failed" /\ url[i] = Some(U_down)
    /\ error[i] = Some(RequestError(U_down))
    /\ pc[j] = "failed" /\ error[j] # None /\ error[j][1].kind = "decode"

\* C5: every request put on the wire carries User-Agent with exactly the
\* fixed value, and fetch_odds sets no other header.
C5_UserAgentOnEveryRequest ==
  \A i \in Calls :
    /\ Invoked(i) => DOMAIN headers[i] = {USER_AGENT}
    /\ \A k \in 1..Len(sent[i]) :
         /\ USER_AGENT \in DOMAIN sent[i][k].headers
         /\ sent[i][k].headers[USER_AGENT] = UserAgent
         /\ DOMAIN sent[i][k].headers \subseteq
              {USER_AGENT} \cup DOMAIN ClientDefaultHeaders
         /\ sent[i][k].method = "GET"

C5_Witness ==
  \E i \in Calls :
    /\ Len(sent[i]) >= 2
    /\ sent[i][2].headers[USER_AGENT] = UserAgent

\* The requests of a call form one chain: it starts at the call's own url
\* and each next request goes to the Location the previous reply named.
OwnChain(i) ==
  /\ \A k \in 1..Len(sent[i]) : sent[i][k].call = i
  /\ sent[i] # <<>> => sent[i][1].url = url[i][1]
  /\ \A k \in 1..(Len(sent[i]) - 1) :
       Route(sent[i][k].url).location = Some(sent[i][k + 1].url)

\* C6: of two calls with different urls, however their steps interleave,
\* each returns the outcome of its own request: the body the server gives
\* for the url its own chain ended at, or an error about a url of its own
\* chain.
C6_NoCrossContamination ==
  \A i, j \in Calls :
    (i # j /\ Invoked(i) /\ Invoked(j) /\ url[i] # url[j]) =>
      \A c \in {i, j} :
        /\ OwnChain(c)
        /\ pc[c] = "resolved" =>
             result[c] =
               Some([variant |-> "Ok",
                     value |-> Decode(Route(Last(sent[c]).url).body)])
        /\ pc[c] = "failed" =>
             /\ result[c] = Some([variant |-> "Err", value |-> to_string(error[c][1])])
             /\ error[c][1].url # None =>
                  \/ error[c][1].url = url[c]
                  \/ \E k \in 1..Len(sent[c]) : error[c][1].url = Some(sent[c][k].url)

\* The later call has returned its own body while the earlier one, to
\* another url, is still reading its body.
C6_Witness ==
  \E i, j \in Calls :
    /\ Overlap(i, j)
    /\ url[i] = Some(U_missing) /\ pc[i] = "text"
    /\ url[j] = Some(U_ok) /\ pc[j] = "resolved"
    /\ result[j] = Some([variant |-> "Ok", value |-> Hello])

\* Redirects the client followed for the call.
Followed(i) ==
  Cardinality({k \in 1..Len(received[i]) : Followable(received[i][k])})
  - (IF error[i] # None /\ error[i][1].kind = "redirect" THEN 1 ELSE 0)

StepCount(i, step) ==
  Cardinality({k \in 1..Len(trace[i]) : trace[i][k].step = step})

\* C7 as stated: every call makes exactly one outbound request.
C7_ExactlyOneRequest ==
  \A i \in Calls : Invoked(i) => Len(sent[i]) = 1

\* C7 (amended): a call awaits send once and the body read at most once and
\* retries neither; a call whose url the client refuses puts nothing on the
\* wire, any other call puts one request on the wire plus one for each
\* redirect the client follows, at most the client's redirect limit.
C7_OneSendNoRetry ==
  \A i \in Calls :
    Invoked(i) =>
      /\ StepCount(i, "send") <= 1
      /\ StepCount(i, "text") <= 1
      /\ pc[i] \in Terminal => StepCount(i, "send") = 1
      /\ Rejected(url[i][1]) <=> Len(sent[i]) = 0
      /\ ~Rejected(url[i][1]) => Len(sent[i]) = 1 + Followed(i)
      /\ Len(sent[i]) <= 1 + MaxRedirects

C7_Witness ==
  \E i, j \in Calls :
    /\ pc[i] = "failed" /\ url[i] = Some(U_bad) /\ Len(sent[i]) = 0
    /\ pc[j] = "resolved" /\ url[j] = Some(U_moved) /\ Len(sent[j]) = 2

\* Every result a call to u can return, whatever happened before it: a
\* function of u, the server's answers and the transport alone.
RECURSIVE Outcomes(_, _)
Outcomes(u, hops) ==
  IF Rejected(u)
    THEN {[variant |-> "Err", value |-> to_string(BuilderError(u))]}
    ELSE {[variant |-> "Err", value |-> to_string(RequestError(u))]} \cup
         (IF ~Route(u).up
            THEN {}
            ELSE IF Followable(Route(u))
              THEN IF hops < MaxRedirects
                     THEN Outcomes(Route(u).location[1], hops + 1)
                     ELSE {[variant |-> "Err", value |-> to_string(RedirectError(u))]}
              ELSE {[variant |-> "Ok", value |-> Decode(Route(u).body)],
                    [variant |-> "Err", value |-> to_string(DecodeError(u))]})

\* C8: a call reads nothing an earlier call left behind: it starts from a
\* fresh header map and request, and its result is one of the outcomes of
\* its own url however many earlier calls succeeded or failed.
C8_NoStateBetweenCalls ==
  \A i \in Calls :
    /\ (pc[i] = "send" /\ received[i] = <<>>) =>
         /\ headers[i] = (USER_AGENT :> UserAgent)
         /\ Len(sent[i]) <= 1
         /\ response[i] = None /\ error[i] = None /\ trace[i] = <<>>
    /\ pc[i] \in Terminal => result[i][1] \in Outcomes(url[i][1], 0)

\* An earlier call to a url has failed in transit; a later call to the same
\* url has returned the server's body.
C8_Witness ==
  \E i, j \in Calls :
    /\ i < j
    /\ url[i] = Some(U_moved) /\ pc[i] = "failed"
    /\ url[j] = Some(U_moved) /\ pc[j] = "resolved"
    /\ result[j] = Some([variant |-> "Ok", value |-> Hello])

\* C9: a call is pending, then resolved (Ok) or failed (Err), and nothing
\* else: both are terminal and keep their result, the body is read only
\* after send succeeded and never after it failed.
C9_Lifecycle ==
  [][\A i \in Calls :
       /\ pc[i] = "idle" => pc'[i] \in {"idle", "send"}
       /\ pc[i] = "send" => pc'[i] \in {"send", "text", "failed"}
       /\ pc[i] = "text" => pc'[i] \in {"text", "resolved", "failed"}
       /\ pc[i] \in Terminal => pc'[i] = pc[i] /\ result'[i] = result[i]
       /\ pc'[i] = "resolved" => result'[i][1].variant = "Ok"
       /\ pc'[i] = "failed" => result'[i][1].variant = "Err"
       /\ pc'[i] \in Pending => result'[i] = None
       /\ \A k \in 1..Len(trace'[i]) :
            trace'[i][k].step = "text" =>
              k = 2 /\ trace'[i][1] = [step |-> "send", ok |-> TRUE]
       /\ pc'[i] = "text" <=>
            trace'[i] = <<[step |-> "send", ok |-> TRUE]>>]_vars

C9_Witness ==
  \E i, j \in Calls :
    /\ pc[i] = "resolved" /\ Len(trace[i]) = 2
    /\ pc[j] = "failed" /\ trace[j] = <<[step |-> "send", ok |-> FALSE]>>

\* C10: no timeout is set, a call stays pending until the transport answers
\* or fails; when the transport always eventually does, every invoked call
\* eventually is resolved or failed.
C10_EveryCallCompletes ==
  \A i \in Calls : (pc[i] \in Pending) ~> (pc[i] \in Terminal)

\* A call issued later completes while an earlier one is still pending.
C10_Witness ==
  \E i, j \in Calls :
    /\ Overlap(i, j)
    /\ pc[i] \in Pending
    /\ pc[j] \in Terminal

====
